---- MODULE Spec2Model ----
(***************************************************************************)
(* RESP3 client writer (writer.go).  A Writer embeds a bufio.Writer over   *)
(* an io.Writer sink; SendCommands, WriteCommand and WriteByteCommand      *)
(* encode one command as an array of blob strings and flush it.            *)
(*                                                                         *)
(* Bytes are modelled by their numeric value, strings and []byte by        *)
(* sequences of bytes.  Every call is one action: the whole handler,       *)
(* including every buffered write and the final Flush.                     *)
(***************************************************************************)
EXTENDS Integers, Sequences, FiniteSets, TLC

(***************************************************************************)
(* Bounds of the model.                                                    *)
(***************************************************************************)
\* capacity of the bufio buffer (bufio.NewWriter allocates 4096 bytes; the
\* model scales it down so that overflow and direct writes happen)
BufSize == 12
\* longest byte string over the full alphabet Bytes
MaxStr == 1
\* largest number of arguments of one command
MaxArgs == 2
\* largest magnitude of an integer argument
MaxInt == 120

(***************************************************************************)
(* Protocol constants (declared outside writer.go).                        *)
(***************************************************************************)
\* '*'
TypeArray == 42
\* '$'
TypeBlobString == 36
\* "\r\n"
CRLFByte == <<13, 10>>

\* byte values used in payloads: CR, LF and 'a'
Bytes == {13, 10, 97}

Min(a, b) == IF a < b THEN a ELSE b

(***************************************************************************)
(* strconv                                                                 *)
(***************************************************************************)
\* decimal digits of a natural number, most significant first (formatBits:
\* repeated division by 10)
RECURSIVE FormatUint(_)
FormatUint(u) ==
    IF u < 10 THEN <<48 + u>>
    ELSE Append(FormatUint(u \div 10), 48 + (u % 10))

\* FormatInt that loses the sign
FormatIntNoSign(v) ==
    IF v < 0 THEN FormatUint(0 - v) ELSE FormatUint(v)

\* strconv.FormatInt(v, 10): '-' and the digits of the magnitude
FormatInt(v) ==
    IF v < 0 THEN <<45>> \o FormatUint(0 - v) ELSE FormatUint(v)

\* strconv.Itoa(i) is FormatInt(int64(i), 10)
Itoa(i) == FormatInt(i)

\* strconv.FormatBool: "true" / "false"
FormatBool(b) ==
    IF b THEN <<116, 114, 117, 101>> ELSE <<102, 97, 108, 115, 101>>

\* strconv.FormatFloat(f, 'g', -1, 64) for the floats of the model, which are
\* whole multiples of 1/4 (q is the number of quarters): shortest decimal
\* that round-trips, sign, integer part, and the fraction without trailing
\* zeros; no exponent is used in this range.
FormatFloat(q) ==
    LET a    == IF q < 0 THEN 0 - q ELSE q
        sign == IF q < 0 THEN <<45>> ELSE <<>>
        frac == CASE a % 4 = 0 -> <<>>
                  [] a % 4 = 1 -> <<46, 50, 53>>
                  [] a % 4 = 2 -> <<46, 53>>
                  [] a % 4 = 3 -> <<46, 55, 53>>
    IN  sign \o FormatUint(a \div 4) \o frac

(***************************************************************************)
(* The sink (io.Writer) and bufio.Writer.                                  *)
(*                                                                         *)
(* A machine m is the Writer during one call:                              *)
(*   buf, err   bufio's pending bytes b.buf[0:b.n] and sticky b.err        *)
(*   sw         the sink also implements io.StringWriter                   *)
(*   left, mode the sink accepts `left` more bytes (-1: unlimited); the    *)
(*              write that exceeds it fails with EIO after accepting the   *)
(*              remaining bytes ("partial") or none of them ("none")       *)
(*   out        bytes the sink accepted during the call                    *)
(*   ioErr      the first sink failure of the call ("nil" if none)         *)
(*   lateWrites sink writes attempted after the first failure of the call  *)
(*   lateArgs   arguments whose loop iteration began after that failure    *)
(***************************************************************************)
Machine(b, e, s, l, md) ==
    [buf |-> b, err |-> e, sw |-> s, left |-> l, mode |-> md,
     out |-> <<>>, ioErr |-> "nil", lateWrites |-> 0, lateArgs |-> 0]

\* number of bytes the sink accepts of p
SinkAccepts(m, p) ==
    IF m.left < 0 \/ Len(p) <= m.left THEN Len(p)
    ELSE IF m.mode = "partial" THEN m.left ELSE 0

\* error returned by the sink's Write(p)
SinkError(m, p) ==
    IF m.left < 0 \/ Len(p) <= m.left THEN "nil" ELSE "EIO"

\* the machine after wr.Write(p): accepted bytes appended to out
SinkWrite(m, p) ==
    LET n == SinkAccepts(m, p)
        e == SinkError(m, p)
    IN  [m EXCEPT !.out = @ \o SubSeq(p, 1, n),
                  !.left = IF m.left < 0 THEN m.left
                           ELSE IF e = "nil" THEN m.left - n ELSE 0,
                  !.ioErr = IF @ = "nil" THEN e ELSE @,
                  !.lateWrites = IF m.ioErr # "nil" THEN @ + 1 ELSE @]

\* b.Available()
Available(m) == BufSize - Len(m.buf)

\* bufio.Writer.Flush: returns the sticky error; otherwise writes the
\* pending bytes, keeps what the sink did not accept and records its error
Flush(m) ==
    IF m.err # "nil" THEN m
    ELSE IF Len(m.buf) = 0 THEN m
    ELSE LET n  == SinkAccepts(m, m.buf)
             e  == SinkError(m, m.buf)
             m1 == SinkWrite(m, m.buf)
         IN  IF e # "nil"
             THEN [m1 EXCEPT !.buf = SubSeq(m.buf, n + 1, Len(m.buf)), !.err = e]
             ELSE [m1 EXCEPT !.buf = <<>>]

\* bufio.Writer.WriteByte
WriteByte(m, c) ==
    IF m.err # "nil" THEN m
    ELSE IF Available(m) <= 0
         THEN LET m1 == Flush(m)
              IN  IF m1.err # "nil" THEN m1
                  ELSE [m1 EXCEPT !.buf = Append(@, c)]
         ELSE [m EXCEPT !.buf = Append(@, c)]

\* the loop shared by bufio.Writer.Write and WriteString: while p does not
\* fit and no error is recorded, either hand p to the sink directly (empty
\* buffer, `direct`) or fill the buffer and flush; then buffer the rest
RECURSIVE WriteLoop(_, _, _)
WriteLoop(m, p, direct) ==
    IF Len(p) > Available(m) /\ m.err = "nil"
    THEN IF Len(m.buf) = 0 /\ direct
         THEN LET n  == SinkAccepts(m, p)
                  m1 == [SinkWrite(m, p) EXCEPT !.err = SinkError(m, p)]
              IN  WriteLoop(m1, SubSeq(p, n + 1, Len(p)), direct)
         ELSE LET n  == Min(Available(m), Len(p))
                  m1 == Flush([m EXCEPT !.buf = @ \o SubSeq(p, 1, n)])
              IN  WriteLoop(m1, SubSeq(p, n + 1, Len(p)), direct)
    ELSE IF m.err # "nil" THEN m
    ELSE [m EXCEPT !.buf = @ \o p]

\* bufio.Writer.Write(p []byte): large writes on an empty buffer go
\* straight to the sink
Write(m, p) == WriteLoop(m, p, TRUE)

\* bufio.Writer.WriteString(s): goes straight to the sink only when the
\* sink is an io.StringWriter
WriteString(m, s) == WriteLoop(m, s, m.sw)

(***************************************************************************)
(* writer.go                                                               *)
(***************************************************************************)
\* outcome of a call: the machine after it, the returned error and whether
\* the handler reached its final w.Flush()
Outcome(m, r, f) == [m |-> m, ret |-> r, flushed |-> f]

\* a header that is left out for a command without arguments
WriteArrayHeaderSkipEmpty(m, n) ==
    IF n = 0 THEN m
    ELSE Write(WriteString(WriteByte(m, TypeArray), Itoa(n)), CRLFByte)

\* the array flag, the element count and CRLF (the first three writes of
\* every handler); their errors are dropped
WriteArrayHeader(m, n) ==
    Write(WriteString(WriteByte(m, TypeArray), Itoa(n)), CRLFByte)

\* writeString without the CRLF that ends the payload
writeStringNoTerminator(m, str) ==
    WriteString(Write(WriteString(WriteByte(m, TypeBlobString),
        Itoa(Len(str))), CRLFByte), str)

\* Writer.writeString: '$', the byte length, CRLF, the payload, CRLF; the
\* error of every write is dropped
writeString(m, str) ==
    Write(WriteString(Write(WriteString(WriteByte(m, TypeBlobString),
        Itoa(Len(str))), CRLFByte), str), CRLFByte)

\* a blob string whose declared length counts the closing CRLF
writeBytesLenWithCRLF(m, arg) ==
    Write(Write(Write(WriteString(WriteByte(m, TypeBlobString),
        Itoa(Len(arg) + 2)), CRLFByte), arg), CRLFByte)

\* the loop body of WriteByteCommand: as writeString, the payload written
\* with w.Write
writeBytes(m, arg) ==
    Write(Write(Write(WriteString(WriteByte(m, TypeBlobString),
        Itoa(Len(arg))), CRLFByte), arg), CRLFByte)

\* one more loop iteration begins: count it when the sink has already failed
\* in this call (the handlers never look at the errors of their writes)
NextArg(m) == [m EXCEPT !.lateArgs = IF m.ioErr # "nil" THEN @ + 1 ELSE @]

\* a type switch without the float32 case
SupportedTypesNoFloat32 ==
    {"string", "int64", "int", "[]byte", "bool", "float64"}

\* the cases of the type switch of SendCommands
SupportedTypes ==
    {"string", "int64", "int", "[]byte", "bool", "float32", "float64"}

\* an argument of SendCommands: its dynamic type t and its value, held in
\* the field of its kind (s: text or bytes, n: a number, b: a boolean; a
\* float is n quarters)
Arg(t, s, n, b) == [t |-> t, s |-> s, n |-> n, b |-> b]
StringArg(s) == Arg("string", s, 0, FALSE)
BytesArg(s) == Arg("[]byte", s, 0, FALSE)
Int64Arg(n) == Arg("int64", <<>>, n, FALSE)
IntArg(n) == Arg("int", <<>>, n, FALSE)
BoolArg(b) == Arg("bool", <<>>, 0, b)
Float32Arg(q) == Arg("float32", <<>>, q, FALSE)
Float64Arg(q) == Arg("float64", <<>>, q, FALSE)
OtherArg(t) == Arg(t, <<>>, 0, FALSE)

\* the text SendCommands passes to writeString for a supported argument
ArgText(arg) ==
    CASE arg.t = "string"  -> arg.s
      [] arg.t = "int64"   -> FormatInt(arg.n)
      [] arg.t = "int"     -> FormatInt(arg.n)
      [] arg.t = "[]byte"  -> arg.s
      [] arg.t = "bool"    -> FormatBool(arg.b)
      [] arg.t = "float32" -> FormatFloat(arg.n)
      [] arg.t = "float64" -> FormatFloat(arg.n)

\* SendCommands that flushes what it has written before it reports the
\* unsupported argument
RECURSIVE SendCommandsLoopFlushOnError(_, _, _)
SendCommandsLoopFlushOnError(m, args, i) ==
    IF i > Len(args)
    THEN LET m1 == Flush(m) IN Outcome(m1, m1.err, TRUE)
    ELSE IF args[i].t \in SupportedTypes
         THEN SendCommandsLoopFlushOnError(
                  writeString(NextArg(m), ArgText(args[i])), args, i + 1)
         ELSE Outcome(Flush(NextArg(m)), "unsupported", FALSE)

\* the range loop of SendCommands from argument i on, and the final Flush
RECURSIVE SendCommandsLoop(_, _, _)
SendCommandsLoop(m, args, i) ==
    IF i > Len(args)
    THEN LET m1 == Flush(m) IN Outcome(m1, m1.err, TRUE)
    ELSE IF args[i].t \in SupportedTypes
         THEN SendCommandsLoop(writeString(NextArg(m), ArgText(args[i])), args, i + 1)
         ELSE Outcome(NextArg(m), "unsupported", FALSE)

\* Writer.SendCommands(args ...interface{})
SendCommands(m, args) ==
    SendCommandsLoop(WriteArrayHeader(m, Len(args)), args, 1)

\* WriteCommand whose loop stops one argument early
RECURSIVE WriteCommandLoopOffByOne(_, _, _)
WriteCommandLoopOffByOne(m, args, i) ==
    IF i >= Len(args)
    THEN LET m1 == Flush(m) IN Outcome(m1, m1.err, TRUE)
    ELSE WriteCommandLoopOffByOne(writeString(NextArg(m), args[i]), args, i + 1)

\* WriteCommand that flushes and drops the error of the Flush
RECURSIVE WriteCommandLoopDropsError(_, _, _)
WriteCommandLoopDropsError(m, args, i) ==
    IF i > Len(args)
    THEN Outcome(Flush(m), "nil", TRUE)
    ELSE WriteCommandLoopDropsError(writeString(NextArg(m), args[i]), args, i + 1)

\* the range loop of WriteCommand from argument i on, and the final Flush
RECURSIVE WriteCommandLoop(_, _, _)
WriteCommandLoop(m, args, i) ==
    IF i > Len(args)
    THEN LET m1 == Flush(m) IN Outcome(m1, m1.err, TRUE)
    ELSE WriteCommandLoop(writeString(NextArg(m), args[i]), args, i + 1)

\* Writer.WriteCommand(args ...string)
WriteCommand(m, args) ==
    WriteCommandLoop(WriteArrayHeader(m, Len(args)), args, 1)

\* WriteByteCommand that returns without the final Flush
RECURSIVE WriteByteCommandLoopNoFlush(_, _, _)
WriteByteCommandLoopNoFlush(m, args, i) ==
    IF i > Len(args)
    THEN Outcome(m, "nil", FALSE)
    ELSE WriteByteCommandLoopNoFlush(writeBytes(NextArg(m), args[i]), args, i + 1)

\* the range loop of WriteByteCommand from argument i on, and the final Flush
RECURSIVE WriteByteCommandLoop(_, _, _)
WriteByteCommandLoop(m, args, i) ==
    IF i > Len(args)
    THEN LET m1 == Flush(m) IN Outcome(m1, m1.err, TRUE)
    ELSE WriteByteCommandLoop(writeBytes(NextArg(m), args[i]), args, i + 1)

\* Writer.WriteByteCommand(args ...[]byte)
WriteByteCommand(m, args) ==
    WriteByteCommandLoop(WriteArrayHeader(m, Len(args)), args, 1)

(***************************************************************************)
(* Inputs.                                                                 *)
(***************************************************************************)
\* sequences over S of length at most n
SeqsUpTo(S, n) == UNION {[1..k -> S] : k \in 0..n}

\* k times the byte 'a'
Rep(k) == [i \in 1..k |-> 97]

\* payloads of the calls on a long-lived Writer: a short one, and one that
\* overflows the buffer and needs a direct write
LeanStrs == {Rep(1), Rep(2 * BufSize + 2)}

\* arguments of SendCommands on a long-lived Writer: text that overflows
\* the buffer, a number whose blob string fits it after the header, and an
\* unsupported variant (int32)
LeanArgs ==
    {StringArg(Rep(2 * BufSize + 2)), Int64Arg(0 - 7), OtherArg("int32")}

\* what the sink does during one call: healthy (left = -1), or it breaks at
\* once or after `left` bytes
HealthyPlan == [left |-> 0 - 1, mode |-> "partial"]
Plans ==
    {HealthyPlan, [left |-> 0, mode |-> "none"],
     [left |-> BufSize + 1, mode |-> "partial"],
     [left |-> BufSize + 1, mode |-> "none"]}

\* payloads of the calls on a fresh Writer: every byte string over Bytes up
\* to MaxStr, CR LF, and two that do not fit the buffer
FreshStrs ==
    SeqsUpTo(Bytes, MaxStr) \cup {CRLFByte, Rep(BufSize + 1), Rep(2 * BufSize + 2)}

\* arguments of SendCommands on a fresh Writer
FreshArgs ==
    {StringArg(s) : s \in FreshStrs} \cup {BytesArg(s) : s \in FreshStrs}
    \cup {Int64Arg(0 - 42), IntArg(10), BoolArg(TRUE), BoolArg(FALSE),
          Float32Arg(6), Float64Arg(0 - 1), OtherArg("int32"), OtherArg("nil")}

\* "SET", "key1", "value1" and "EXPIRE"
ExampleSet ==
    <<(<<83, 69, 84>>), (<<107, 101, 121, 49>>), (<<118, 97, 108, 117, 101, 49>>)>>
ExampleExpire ==
    <<StringArg(<<69, 88, 80, 73, 82, 69>>), StringArg(<<107, 101, 121, 49>>),
      Int64Arg(10)>>

\* single integer arguments of either width
IntArgs ==
    {Int64Arg(n) : n \in (0 - MaxInt)..MaxInt} \cup {IntArg(n) : n \in (0 - MaxInt)..MaxInt}

(***************************************************************************)
(* State: one Writer and the record of the last call on it.                *)
(***************************************************************************)
VARIABLES
    buf,         \* bufio: pending bytes
    err,         \* bufio: sticky error
    sw,          \* the sink given to NewWriter implements io.StringWriter
    sinkFailed,  \* some sink write of this Writer has failed
    call         \* the call that has just returned: op, args, ret, out, ...
                 \* (op "none": the caller is between calls)

vars == <<buf, err, sw, sinkFailed, call>>

NoCall ==
    [op |-> "none", args |-> <<>>, ret |-> "nil", out |-> <<>>,
     preBuf |-> <<>>, preErr |-> "nil", preFailed |-> FALSE,
     flushed |-> FALSE, healthy |-> TRUE,
     ioErr |-> "nil", lateWrites |-> 0, lateArgs |-> 0]

CallRecord(op, args, plan, o) ==
    [op |-> op, args |-> args, ret |-> o.ret, out |-> o.m.out,
     preBuf |-> buf, preErr |-> err, preFailed |-> sinkFailed,
     flushed |-> o.flushed, healthy |-> plan.left < 0,
     ioErr |-> o.m.ioErr, lateWrites |-> o.m.lateWrites,
     lateArgs |-> o.m.lateArgs]

\* the effect of one call with outcome o on the Writer
Returns(op, args, plan, o) ==
    /\ buf' = o.m.buf
    /\ err' = o.m.err
    /\ sinkFailed' = (sinkFailed \/ o.m.ioErr # "nil")
    /\ call' = CallRecord(op, args, plan, o)
    /\ UNCHANGED sw

\* NewWriter(writer): an empty buffer, no error
Init ==
    /\ buf = <<>>
    /\ err = "nil"
    /\ sw \in BOOLEAN
    /\ sinkFailed = FALSE
    /\ call = NoCall

\* the caller is between calls
Idle == call.op = "none"

DoSendCommands ==
    /\ Idle
    /\ \E args \in SeqsUpTo(LeanArgs, MaxArgs), plan \in Plans :
           Returns("SendCommands", args, plan,
                   SendCommands(Machine(buf, err, sw, plan.left, plan.mode), args))

DoWriteCommand ==
    /\ Idle
    /\ \E args \in SeqsUpTo(LeanStrs, MaxArgs), plan \in Plans :
           Returns("WriteCommand", args, plan,
                   WriteCommand(Machine(buf, err, sw, plan.left, plan.mode), args))

DoWriteByteCommand ==
    /\ Idle
    /\ \E args \in SeqsUpTo(LeanStrs, MaxArgs), plan \in Plans :
           Returns("WriteByteCommand", args, plan,
                   WriteByteCommand(Machine(buf, err, sw, plan.left, plan.mode), args))

\* the caller has looked at the returned error and goes on to its next
\* call on the same Writer
Resume ==
    /\ ~Idle
    /\ call' = NoCall
    /\ UNCHANGED <<buf, err, sw, sinkFailed>>

(***************************************************************************)
(* Calls on a fresh Writer over a healthy sink: each call is made on the   *)
(* Writer NewWriter has just returned.                                      *)
(***************************************************************************)
\* NewWriter(writer) for the next call
NewWriter ==
    /\ ~Idle
    /\ buf' = <<>>
    /\ err' = "nil"
    /\ sw' \in BOOLEAN
    /\ sinkFailed' = FALSE
    /\ call' = NoCall

FreshSendCommands ==
    /\ Idle
    /\ \E args \in SeqsUpTo(FreshArgs, MaxArgs) \cup {<<a>> : a \in IntArgs}
                      \cup {ExampleExpire} :
           Returns("SendCommands", args, HealthyPlan,
                   SendCommands(Machine(buf, err, sw, 0 - 1, "partial"), args))

FreshWriteCommand ==
    /\ Idle
    /\ \E args \in SeqsUpTo(FreshStrs, MaxArgs) \cup {ExampleSet} :
           Returns("WriteCommand", args, HealthyPlan,
                   WriteCommand(Machine(buf, err, sw, 0 - 1, "partial"), args))

FreshWriteByteCommand ==
    /\ Idle
    /\ \E args \in SeqsUpTo(FreshStrs, MaxArgs) \cup {ExampleSet} :
           Returns("WriteByteCommand", args, HealthyPlan,
                   WriteByteCommand(Machine(buf, err, sw, 0 - 1, "partial"), args))

NextFresh ==
    FreshSendCommands \/ FreshWriteCommand \/ FreshWriteByteCommand \/ NewWriter

SpecFresh == Init /\ [][NextFresh]_vars

Next == DoSendCommands \/ DoWriteCommand \/ DoWriteByteCommand \/ Resume

Spec == Init /\ [][Next]_vars

(***************************************************************************)
(* The wire format as the protocol states it, for the properties.          *)
(***************************************************************************)
\* decimal digits of n < 1000, without leading zeros
Dec(n) ==
    IF n < 10 THEN <<48 + n>>
    ELSE IF n < 100 THEN <<48 + (n \div 10), 48 + (n % 10)>>
    ELSE <<48 + (n \div 100), 48 + ((n \div 10) % 10), 48 + (n % 10)>>

\* a blob string with the marker tb and the terminator crlf:
\* tb dec(len) crlf payload crlf
FrameBlob(tb, crlf, p) == <<tb>> \o Dec(Len(p)) \o crlf \o p \o crlf

\* the blob strings of the payloads ps[1..k], in order
RECURSIVE FrameBlobs(_, _, _, _)
FrameBlobs(tb, crlf, ps, k) ==
    IF k = 0 THEN <<>>
    ELSE FrameBlobs(tb, crlf, ps, k - 1) \o FrameBlob(tb, crlf, ps[k])

\* an array header with the marker ta: ta dec(n) crlf
FrameHeader(ta, crlf, n) == <<ta>> \o Dec(n) \o crlf

\* RESP3 on the wire: '*' dec(n) CR LF, then '$' dec(len) CR LF payload
\* CR LF for each payload
RefHeader(n) == FrameHeader(42, <<13, 10>>, n)
RefBlobs(ps, k) == FrameBlobs(36, <<13, 10>>, ps, k)
RefFrame(ps) == RefHeader(Len(ps)) \o RefBlobs(ps, Len(ps))

\* the same with the markers and the terminator the package declares
OwnHeader(n) == FrameHeader(TypeArray, CRLFByte, n)
OwnBlobs(ps, k) == FrameBlobs(TypeBlobString, CRLFByte, ps, k)

IsPrefix(a, b) == Len(a) <= Len(b) /\ SubSeq(b, 1, Len(a)) = a

\* the variants the typed operation accepts, as the claims list them
Accepted == {"string", "int", "int64", "[]byte", "bool", "float32", "float64"}

\* position of the first argument of an unsupported variant (0: none)
FirstUnsupported(args) ==
    IF \E i \in 1..Len(args) : args[i].t \notin Accepted
    THEN CHOOSE i \in 1..Len(args) :
            /\ args[i].t \notin Accepted
            /\ \A j \in 1..(i - 1) : args[j].t \in Accepted
    ELSE 0

\* the payloads of the first k arguments of the call c
PayloadsOf(c, k) ==
    IF c.op = "SendCommands"
    THEN [i \in 1..k |-> ArgText(c.args[i])]
    ELSE [i \in 1..k |-> c.args[i]]

\* the complete array frame of the command of the call c
FrameOf(c) ==
    OwnHeader(Len(c.args)) \o OwnBlobs(PayloadsOf(c, Len(c.args)), Len(c.args))

Called == call.op # "none"

(***************************************************************************)
(* Properties of a long-lived Writer (Spec).                               *)
(***************************************************************************)
\* C1, as stated: whatever the earlier calls on the Writer did, a call
\* that returns nil has delivered to the sink exactly the bytes of its own
\* array frame.
C1_ExactFrameAfterAnyHistory ==
    (Called /\ call.ret = "nil") => call.out = FrameOf(call)

\* C1, amended: a call that began with an empty buffer and returns nil has
\* delivered to the sink exactly the bytes of its own array frame, once.
C1_ExactFrameFromEmptyBuffer ==
    (Called /\ call.ret = "nil" /\ call.preBuf = <<>>)
        => call.out = FrameOf(call)

\* a call of two arguments on an empty buffer returned nil after more than
\* one sink write
C1_Witness ==
    /\ Called /\ call.ret = "nil" /\ call.preBuf = <<>>
    /\ Len(call.args) = 2 /\ Len(call.out) > 2 * BufSize

\* C3, as stated: when the sink fails during a call, the call returns that
\* failure, no further argument is processed and no further sink write is
\* attempted.
C3_FirstSinkErrorAborts ==
    (Called /\ call.ioErr # "nil")
        => /\ call.ret = call.ioErr
           /\ call.lateArgs = 0
           /\ call.lateWrites = 0

\* C4: after a call that returns nil the buffer is empty, and everything
\* that was pending before the call and the call's own frame is at the sink.
C4_NothingPendingAfterSuccess ==
    (Called /\ call.ret = "nil")
        => /\ buf = <<>>
           /\ call.out = call.preBuf \o FrameOf(call)

\* a call that found bytes pending returned nil
C4_Witness ==
    /\ Called /\ call.ret = "nil" /\ call.flushed
    /\ call.preBuf # <<>> /\ Len(call.args) > 0

\* the precondition of C9: SendCommands on an empty buffer fails on the
\* unsupported argument at position i, and the header and the frames before
\* position i fit the buffer
C9_Case ==
    /\ call.op = "SendCommands"
    /\ call.preBuf = <<>>
    /\ call.ret = "unsupported"
    /\ Len(OwnHeader(Len(call.args))
           \o OwnBlobs(PayloadsOf(call, FirstUnsupported(call.args) - 1),
                       FirstUnsupported(call.args) - 1)) <= BufSize

\* what C9 says of that case: nothing reaches the sink and exactly the
\* header and the frames before position i stay pending
C9_Pending ==
    /\ call.out = <<>>
    /\ buf = OwnHeader(Len(call.args))
               \o OwnBlobs(PayloadsOf(call, FirstUnsupported(call.args) - 1),
                           FirstUnsupported(call.args) - 1)

\* the bytes a call delivers begin with the bytes that were pending
PendingGoesFirst ==
    (Called /\ call.out # <<>>)
        => IsPrefix(call.preBuf, call.out) \/ IsPrefix(call.out, call.preBuf)

\* C9, as stated: on any Writer whose buffer is empty.
C9_PendingOnAnyEmptyBuffer ==
    /\ C9_Case => C9_Pending
    /\ PendingGoesFirst

\* C9, amended: on a Writer whose buffer is empty and that has recorded no
\* sink failure, the failed call delivers nothing and leaves the header and
\* the frames before the unsupported argument pending; the next bytes the
\* Writer delivers begin with them.
C9_PendingAfterUnsupported ==
    /\ (C9_Case /\ call.preErr = "nil") => C9_Pending
    /\ PendingGoesFirst

\* the failed call left a header and one blob string pending
C9_Witness ==
    /\ C9_Case /\ call.preErr = "nil"
    /\ FirstUnsupported(call.args) = 2
    /\ Len(buf) > Len(OwnHeader(2))

\* C10: once a sink write of a Writer has failed, every later call on it
\* returns an error and delivers nothing, whatever the sink does then.
C10_StickyError ==
    /\ (Called /\ call.preFailed) => (call.ret # "nil" /\ call.out = <<>>)
    /\ sinkFailed => err # "nil"

\* a call on a healthy sink failed because of an earlier sink failure
C10_Witness ==
    /\ Called /\ call.preFailed /\ call.healthy
    /\ call.op = "WriteCommand" /\ call.ret = "EIO" /\ call.preBuf # <<>>

(***************************************************************************)
(* Properties of single calls on a fresh Writer over a healthy sink        *)
(* (SpecFresh).                                                            *)
(***************************************************************************)
\* C2: SendCommands returns the unsupported-argument error exactly when an
\* argument of a variant outside the accepted ones is present; the call then
\* never reaches its Flush, and what it has delivered is at most the header
\* and the blob strings before that argument, never the complete frame.
C2_UnsupportedArgument ==
    call.op = "SendCommands" =>
        LET i == FirstUnsupported(call.args)
        IN  /\ (call.ret = "unsupported") <=> (i # 0)
            /\ i # 0 =>
                /\ ~call.flushed
                /\ IsPrefix(call.out,
                            call.preBuf \o OwnHeader(Len(call.args))
                              \o OwnBlobs(PayloadsOf(call, i - 1), i - 1))

\* the call failed on its second argument after part of the frame had
\* already overflowed to the sink
C2_Witness ==
    /\ call.op = "SendCommands" /\ call.ret = "unsupported"
    /\ FirstUnsupported(call.args) = 2 /\ call.out # <<>> /\ call.healthy

\* C5: WriteCommand and WriteByteCommand deliver '*' dec(n) CR LF and, for
\* each argument in order, '$' dec(byte length) CR LF, the argument
\* unchanged, CR LF.
C5_WireFormat ==
    call.op \in {"WriteCommand", "WriteByteCommand"} =>
        /\ call.ret = "nil"
        /\ call.out = RefFrame(call.args)

\* WriteByteCommand was given a payload that holds CR LF, after another one
C5_Witness ==
    /\ call.op = "WriteByteCommand" /\ Len(call.args) = 2
    /\ call.args[2] = <<13, 10>> /\ call.args[1] = <<10>>
    /\ call.out = <<42, 50, 13, 10, 36, 49, 13, 10, 10, 13, 10,
                    36, 50, 13, 10, 13, 10, 13, 10>>

\* WriteCommand("SET", "key1", "value1")
C5_WitnessSet ==
    /\ call.op = "WriteCommand" /\ call.args = ExampleSet
    /\ call.out = <<42, 51, 13, 10, 36, 51, 13, 10, 83, 69, 84, 13, 10,
                    36, 52, 13, 10, 107, 101, 121, 49, 13, 10,
                    36, 54, 13, 10, 118, 97, 108, 117, 101, 49, 13, 10>>

\* value of a string of decimal digits
RECURSIVE ParseUint(_)
ParseUint(d) ==
    IF Len(d) = 0 THEN 0
    ELSE 10 * ParseUint(SubSeq(d, 1, Len(d) - 1)) + (d[Len(d)] - 48)

\* digits only, at least one, no leading zero
CanonicalUint(d) ==
    /\ Len(d) >= 1
    /\ \A i \in 1..Len(d) : d[i] \in 48..57
    /\ Len(d) > 1 => d[1] # 48

\* base-10 text of an integer: an optional '-', then canonical digits
CanonicalInt(p) ==
    IF Len(p) >= 1 /\ p[1] = 45
    THEN CanonicalUint(SubSeq(p, 2, Len(p))) /\ p # <<45, 48>>
    ELSE CanonicalUint(p)

ParseInt(p) ==
    IF p[1] = 45 THEN 0 - ParseUint(SubSeq(p, 2, Len(p))) ELSE ParseUint(p)

\* index of the CR that ends the length field of the blob string that
\* begins at position 5 of o
LengthEnd(o) ==
    CHOOSE k \in 6..Len(o) : o[k] = 13 /\ \A j \in 6..(k - 1) : o[j] # 13

\* the payload of the only blob string of o
OnlyPayload(o) == SubSeq(o, LengthEnd(o) + 2, Len(o) - 2)

\* o is '*1' CR LF '$' dec(len(payload)) CR LF payload CR LF
OneBlobFrame(o) ==
    /\ Len(o) >= 10
    /\ SubSeq(o, 1, 5) = <<42, 49, 13, 10, 36>>
    /\ \E k \in 6..Len(o) : o[k] = 13
    /\ LengthEnd(o) + 3 <= Len(o)
    /\ o[LengthEnd(o) + 1] = 10
    /\ SubSeq(o, 6, LengthEnd(o) - 1) = Dec(Len(OnlyPayload(o)))
    /\ SubSeq(o, Len(o) - 1, Len(o)) = <<13, 10>>

\* the payload p is the text of the argument a and parses back to it
RoundTrips(a, p) ==
    CASE a.t \in {"string", "[]byte"} -> p = a.s
      [] a.t \in {"int", "int64"}     -> CanonicalInt(p) /\ ParseInt(p) = a.n
      [] a.t = "bool"                 ->
            /\ p \in {<<116, 114, 117, 101>>, <<102, 97, 108, 115, 101>>}
            /\ (p = <<116, 114, 117, 101>>) = a.b

\* C6: SendCommands with one argument that is text, bytes, an integer or a
\* boolean delivers one array of one blob string whose declared length is
\* the byte length of its payload, and the payload is the argument's text:
\* verbatim, canonical base-10 digits, or true / false.
C6_SingleArgument ==
    (/\ call.op = "SendCommands" /\ Len(call.args) = 1
     /\ call.args[1].t \in {"string", "[]byte", "int", "int64", "bool"})
        => /\ call.ret = "nil"
           /\ OneBlobFrame(call.out)
           /\ RoundTrips(call.args[1], OnlyPayload(call.out))

\* SendCommands(int64(-42)) delivered the payload -42 with length 3
C6_Witness ==
    /\ call.op = "SendCommands" /\ call.args = <<Int64Arg(0 - 42)>>
    /\ call.out = <<42, 49, 13, 10, 36, 51, 13, 10, 45, 52, 50, 13, 10>>

\* SendCommands(true) delivered the blob string true with length 4
C6_WitnessBool ==
    /\ call.op = "SendCommands" /\ call.args = <<BoolArg(TRUE)>>
    /\ call.out = <<42, 49, 13, 10, 36, 52, 13, 10, 116, 114, 117, 101, 13, 10>>

\* C7: a call with no arguments returns nil and delivers exactly '*0' CR LF.
C7_EmptyCommand ==
    (Called /\ call.args = <<>>)
        => /\ call.ret = "nil"
           /\ call.out = <<42, 48, 13, 10>>

\* SendCommands() delivered the empty array
C7_Witness ==
    /\ call.op = "SendCommands" /\ call.args = <<>> /\ call.flushed
    /\ call.out = <<42, 48, 13, 10>>

\* the call c was given text or bytes only
Textual(c) ==
    /\ c.op # "none"
    /\ c.op = "SendCommands" => \A i \in 1..Len(c.args) : c.args[i].t \in {"string", "[]byte"}

\* the byte strings the call c was given
RawArgs(c) ==
    IF c.op = "SendCommands" THEN [i \in 1..Len(c.args) |-> c.args[i].s] ELSE c.args

\* a fresh Writer over a healthy sink
FreshMachine(s) == Machine(<<>>, "nil", s, 0 - 1, "partial")

====
